---- MODULE Spec2Model ----
(***************************************************************************)
(* Model of prediction-creator (src/src/main.rs): a linear command-line    *)
(* flow that parses its arguments, validates a token, looks up the         *)
(* broadcaster's last prediction, creates one when none is active, asks    *)
(* the operator for the winning outcome and ends the prediction.           *)
(*                                                                         *)
(* Option<T> is modelled as a sequence of length at most one: <<>> is None *)
(* and <<x>> is Some(x).  Vec<T> is a sequence; Rust's 0-based indices are *)
(* kept in the state and converted where a sequence is indexed.            *)
(***************************************************************************)
EXTENDS Integers, Sequences, FiniteSets, TLC

\* ---------------------------------------------------------------- bounds
\* Longest --outcome list the command line supplies.
MaxArgOutcomes == 6
\* Most outcomes an already existing prediction of the platform carries.
MaxServerOutcomes == 3

\* ------------------------------------------------------ program constants
\* parse_args: "if num_outcomes < 2".
MinOutcomes == 2
\* parse_args: "if num_outcomes > 5".
MaxOutcomes == 5
\* App::prediction_window: default_value = "30".
DefaultPredictionWindow == 30
\* get_last_prediction: request.first = Some(1).
First == 1

\* ------------------------------------------------------------ value sets
None == <<>>
Some(x) == <<x>>

\* Values of --title; "" is a present but empty title.
Titles == {"Who wins?", ""}
\* Values of one --outcome.
OutcomeTitles == {"Win", "Lose"}
\* Texts given to --prediction-window; "soon" does not parse as i64.
WindowTexts == {"60", "-1", "soon"}

\* twitch_api::types::PredictionStatus; "Other" stands for any further variant.
PredictionStatus == {"Active", "Locked", "Resolved", "Canceled", "Other"}
\* end_prediction::EndPrediction; "Unknown" stands for any further variant of
\* the non-exhaustive enum, the catch-all arm of main's match.
EndPrediction == {"Success", "MissingQuery", "AuthFailed", "Unknown"}

\* All sequences over S of length lo..hi.
SeqsOf(S, lo, hi) == UNION {[1..n -> S] : n \in lo..hi}

\* The command lines: --title given or not, any number of --outcome up to the
\* bound, --prediction-window absent, an integer, or not an integer.
Argv ==
    [title : {None} \cup {Some(t) : t \in Titles},
     outcome : SeqsOf(OutcomeTitles, 0, MaxArgOutcomes),
     prediction_window : {None} \cup {Some(w) : w \in WindowTexts}]

\* Titles of the outcomes of predictions that already exist on the platform.
ServerTitles == <<"Yes", "No", "Maybe", "Never", "Always", "Draw">>
ServerOutcomes(n) == [i \in 1..n |-> [id |-> <<"old", i>>, title |-> ServerTitles[i]]]
\* Predictions the platform may hold for the broadcaster.
ServerPredictions ==
    {[id |-> "p-old", title |-> "Existing", status |-> s, outcomes |-> ServerOutcomes(n)] :
        s \in PredictionStatus, n \in MinOutcomes..MaxServerOutcomes}
\* Responses to "list predictions": at most `first` predictions.
GetPredictionsResponses == SeqsOf(ServerPredictions, 0, First)

\* What token validation may report: login and user id are both optional.
ValidatedTokens ==
    [login : {None, Some("streamer")}, user_id : {None, Some("u-1")}]

\* ------------------------------------------------------------- the state
VARIABLES
    argv,                 \* the command line
    envToken,             \* TWITCH_ACCESS_TOKEN: None when unset
    pc,                   \* position in main
    exit,                 \* "running", "ok" (Ok(())), "err" (Err), "panic"
    error,                \* the error main returned, None while there is none
    app,                  \* Option<App>: parse_args' result
    broadcaster_login,    \* Option
    broadcaster_user_id,  \* Option
    calls,                \* the remote calls issued so far, in order
    failedCall,           \* Option: the remote call that returned an error
    response,             \* Option: the data of the list-predictions response
    current_prediction,   \* Option<Prediction>: get_last_prediction's result
    prediction,           \* Option<Prediction>: the prediction in use
    options,              \* prediction.outcomes
    items,                \* the menu entries
    selection,            \* Option<usize>: the operator's choice
    end_response,         \* Option<EndPrediction>
    term                  \* the lines written to the terminal

vars == <<argv, envToken, pc, exit, error, app, broadcaster_login,
          broadcaster_user_id, calls, failedCall, response, current_prediction,
          prediction, options, items, selection, end_response, term>>

\* ------------------------------------------------------- pure functions
\* i64's FromStr on the texts of WindowTexts: what clap applies to the value
\* of --prediction-window.
ParseI64(text) ==
    CASE text = "60" -> Some(60)
      [] text = "-1" -> Some(0 - 1)
      [] OTHER -> None

\* App::try_parse (the clap derive of struct App): --title is required,
\* --outcome is repeatable, --prediction-window is an i64 that defaults to 30.
try_parse(a) ==
    IF a.title = None
    THEN [ok |-> FALSE, app |-> None, error |-> Some(<<"clap: --title is required">>)]
    ELSE IF a.prediction_window /= None /\ ParseI64(a.prediction_window[1]) = None
    THEN [ok |-> FALSE, app |-> None, error |-> Some(<<"clap: invalid --prediction-window">>)]
    ELSE [ok |-> TRUE,
          app |-> Some([title |-> a.title[1],
                        outcome |-> a.outcome,
                        prediction_window |->
                            IF a.prediction_window = None
                            THEN DefaultPredictionWindow
                            ELSE ParseI64(a.prediction_window[1])[1]]),
          error |-> None]

\* parse_args with the upper test off by one (>= for >): rejects 5 outcomes.
parse_args_AtMostExclusive(a) ==
    LET parsed == try_parse(a) IN
    IF ~parsed.ok THEN parsed
    ELSE LET num_outcomes == Len(parsed.app[1].outcome) IN
         IF num_outcomes < MinOutcomes
         THEN [ok |-> FALSE, app |-> None,
               error |-> Some(<<"You must provide at least 2 outcomes with --outcome, you provided",
                                num_outcomes>>)]
         ELSE IF num_outcomes >= MaxOutcomes
         THEN [ok |-> FALSE, app |-> None,
               error |-> Some(<<"You may provide at most 5 outcomes with --outcome, you provided",
                                num_outcomes>>)]
         ELSE parsed

\* parse_args: the outcome count must lie in 2..5.
parse_args(a) ==
    LET parsed == try_parse(a) IN
    IF ~parsed.ok THEN parsed
    ELSE LET num_outcomes == Len(parsed.app[1].outcome) IN
         IF num_outcomes < MinOutcomes
         THEN [ok |-> FALSE, app |-> None,
               error |-> Some(<<"You must provide at least 2 outcomes with --outcome, you provided",
                                num_outcomes>>)]
         ELSE IF num_outcomes > MaxOutcomes
         THEN [ok |-> FALSE, app |-> None,
               error |-> Some(<<"You may provide at most 5 outcomes with --outcome, you provided",
                                num_outcomes>>)]
         ELSE parsed

\* get_last_prediction without the Locked test.
get_last_prediction_ActiveOnly(data) ==
    IF data /= <<>>
    THEN LET last_prediction == data[Len(data)] IN
         IF last_prediction.status = "Active" THEN Some(last_prediction) ELSE None
    ELSE None

\* get_last_prediction, after the response arrived: response.pop() and the
\* status test.
get_last_prediction(data) ==
    IF data /= <<>>
    THEN LET last_prediction == data[Len(data)] IN
         IF last_prediction.status = "Active" \/ last_prediction.status = "Locked"
         THEN Some(last_prediction)
         ELSE None
    ELSE None

\* create_prediction::NewPredictionOutcome::new
NewPredictionOutcome(title) == [title |-> title]

\* start_prediction that ignores prediction_window and sends the default.
start_prediction_DefaultWindow(channel_id, title, opts, prediction_window) ==
    [broadcaster_id |-> channel_id,
     title |-> title,
     outcomes |-> [i \in 1..Len(opts) |-> NewPredictionOutcome(opts[i])],
     prediction_window |-> DefaultPredictionWindow]

\* start_prediction: the body of the create-prediction request.
start_prediction(channel_id, title, opts, prediction_window) ==
    [broadcaster_id |-> channel_id,
     title |-> title,
     outcomes |-> [i \in 1..Len(opts) |-> NewPredictionOutcome(opts[i])],
     prediction_window |-> prediction_window]

\* The platform's answer to a create-prediction request: the prediction with
\* the identifiers it assigned.
CreatePredictionResponse(body) ==
    [id |-> "p-new",
     title |-> body.title,
     status |-> "Active",
     outcomes |-> [i \in 1..Len(body.outcomes) |->
                      [id |-> <<"new", i>>, title |-> body.outcomes[i].title]]]

\* end_prediction with channel_id and prediction_id passed in the wrong order.
end_prediction_SwappedIds(channel_id, prediction_id, new_status, winning_outcome_id) ==
    [broadcaster_id |-> prediction_id,
     id |-> channel_id,
     status |-> new_status,
     winning_outcome_id |-> winning_outcome_id]

\* end_prediction: the body of the end-prediction request; the winning
\* outcome id stays None unless one is passed.
end_prediction(channel_id, prediction_id, new_status, winning_outcome_id) ==
    [broadcaster_id |-> channel_id,
     id |-> prediction_id,
     status |-> new_status,
     winning_outcome_id |-> IF winning_outcome_id /= None
                            THEN Some(winning_outcome_id[1])
                            ELSE None]

\* format!("[{}] {}", i + 1, outcome.title) for the 0-based index i.
MenuEntry(i, outcome) == <<"[", i + 1, "] ", outcome.title>>

\* items without the trailing push of "CANCEL".
Items_NoCancel(opts) ==
    [k \in 1..Len(opts) |-> MenuEntry(k - 1, opts[k])]

\* main's items: one entry per outcome, then "CANCEL".
Items(opts) ==
    Append([k \in 1..Len(opts) |-> MenuEntry(k - 1, opts[k])], <<"CANCEL">>)

\* A lookup that takes the index as 1-based.
Get_OneBased(opts, index) ==
    IF index >= 1 /\ index <= Len(opts) THEN Some(opts[index]) ELSE None

\* slice::get for a 0-based index.
Get(opts, index) ==
    IF index < Len(opts) THEN Some(opts[index + 1]) ELSE None

\* A match whose catch-all arm prints a diagnostic instead of panicking.
Report_UnknownHandled(variant) ==
    CASE variant = "Success" -> Some(<<"Successfully ended prediction">>)
      [] variant = "MissingQuery" -> Some(<<"ERROR: Bad prediction body:", variant>>)
      [] variant = "AuthFailed" -> Some(<<"ERROR: Auth failed:", variant>>)
      [] OTHER -> Some(<<"ERROR: unknown response:", variant>>)

\* main's match on the end-prediction response: the line to print, or None
\* for the unimplemented!() arm.
Report(variant) ==
    CASE variant = "Success" -> Some(<<"Successfully ended prediction">>)
      [] variant = "MissingQuery" -> Some(<<"ERROR: Bad prediction body:", variant>>)
      [] variant = "AuthFailed" -> Some(<<"ERROR: Auth failed:", variant>>)
      [] OTHER -> None

\* The sequence of the values of field op of the calls.
Ops(cs) == [i \in 1..Len(cs) |-> cs[i].op]
\* The calls of cs with operation op.
CallsOf(cs, op) == SelectSeq(cs, LAMBDA c : c.op = op)

\* ------------------------------------------------------------------ Init
Init ==
    /\ argv \in Argv
    /\ envToken \in {None, Some("token")}
    /\ pc = "parse_args"
    /\ exit = "running"
    /\ error = None
    /\ app = None
    /\ broadcaster_login = None
    /\ broadcaster_user_id = None
    /\ calls = <<>>
    /\ failedCall = None
    /\ response = None
    /\ current_prediction = None
    /\ prediction = None
    /\ options = <<>>
    /\ items = <<>>
    /\ selection = None
    /\ end_response = None
    /\ term = <<>>

\* ------------------------------------------------------- leaving main
\* An error that is noted while main stays at the same step and tries again.
Raise_Retry(call, e) ==
    /\ failedCall' = call
    /\ UNCHANGED <<pc, exit, error>>

\* The ? operator on an Err: main returns the error.  call names the remote
\* call that failed, None when the error is not a remote call's.
Raise(call, e) ==
    /\ pc' = "done"
    /\ exit' = "err"
    /\ error' = Some(e)
    /\ failedCall' = call

\* expect() on a None, unimplemented!(): the process panics.
Panic(message) ==
    /\ pc' = "done"
    /\ exit' = "panic"
    /\ error' = Some(message)
    /\ failedCall' = None

\* Control moves on to the step `next`.
Goto(next) ==
    /\ pc' = next
    /\ UNCHANGED <<exit, error, failedCall>>

\* writeln!(term, ...)? : the line is written, or the write fails and main
\* returns the I/O error.
Writeln(line, ok) == IF ok THEN Append(term, line) ELSE term

\* --------------------------------------------------------------- actions
\* let app = parse_args()?;
MainParseArgs ==
    /\ pc = "parse_args"
    /\ LET r == parse_args(argv) IN
       /\ app' = r.app
       /\ IF r.ok THEN Goto("env_var") ELSE Raise(None, r.error[1])
    /\ UNCHANGED <<argv, envToken, broadcaster_login, broadcaster_user_id, calls,
                   response, current_prediction, prediction, options, items,
                   selection, end_response, term>>

\* Term::stdout(); HelixClient::default(); env::var("TWITCH_ACCESS_TOKEN")?
MainEnvVar ==
    /\ pc = "env_var"
    /\ IF envToken /= None
       THEN Goto("from_token")
       ELSE Raise(None, <<"environment variable not found">>)
    /\ UNCHANGED <<argv, envToken, app, broadcaster_login, broadcaster_user_id,
                   calls, response, current_prediction, prediction, options,
                   items, selection, end_response, term>>

\* UserToken::from_token(&client, access_token.into()).await? : the token
\* library builds the UserToken or reports an error.
MainFromToken ==
    /\ pc = "from_token"
    /\ \E ok \in BOOLEAN :
        IF ok THEN Goto("validate_token") ELSE Raise(None, <<"from_token">>)
    /\ UNCHANGED <<argv, envToken, app, broadcaster_login, broadcaster_user_id,
                   calls, response, current_prediction, prediction, options,
                   items, selection, end_response, term>>

\* token.validate_token(&client).await? and the two expect()s.
MainValidateToken ==
    /\ pc = "validate_token"
    /\ calls' = Append(calls, [op |-> "validate_token", body |-> [token |-> envToken[1]]])
    /\ \E r \in {None} \cup {Some(v) : v \in ValidatedTokens} :
        IF r = None
        THEN /\ Raise(Some("validate_token"), <<"validate_token">>)
             /\ UNCHANGED <<broadcaster_login, broadcaster_user_id>>
        ELSE IF r[1].login = None
        THEN /\ Panic(<<"token to contain a login">>)
             /\ UNCHANGED <<broadcaster_login, broadcaster_user_id>>
        ELSE IF r[1].user_id = None
        THEN /\ Panic(<<"token to contain a user id">>)
             /\ broadcaster_login' = r[1].login
             /\ UNCHANGED broadcaster_user_id
        ELSE /\ Goto("get_last_prediction")
             /\ broadcaster_login' = r[1].login
             /\ broadcaster_user_id' = r[1].user_id
    /\ UNCHANGED <<argv, envToken, app, response, current_prediction, prediction,
                   options, items, selection, end_response, term>>

\* A flow that starts a prediction whether or not one was found.
AfterLookup_AlwaysStart(current) == "start_prediction"

\* main's `if let Some(current_prediction) = ... { } else { }`: where control
\* goes once the status line is written.
AfterLookup(current) == IF current /= None THEN "select" ELSE "start_prediction"

\* get_last_prediction(...).await? and the status line of either branch.
MainGetLastPrediction ==
    /\ pc = "get_last_prediction"
    /\ calls' = Append(calls, [op |-> "get_predictions",
                               body |-> [broadcaster_id |-> broadcaster_user_id[1],
                                         first |-> Some(First)]])
    /\ \E r \in {None} \cup {Some(d) : d \in GetPredictionsResponses} :
        IF r = None
        THEN /\ Raise(Some("get_predictions"), <<"get_predictions">>)
             /\ UNCHANGED <<response, current_prediction, prediction, term>>
        ELSE /\ response' = r
             /\ current_prediction' = get_last_prediction(r[1])
             /\ prediction' = current_prediction'
             /\ \E ok \in BOOLEAN :
                 /\ term' = Writeln(
                        IF current_prediction' /= None
                        THEN <<"Found already active prediction:", current_prediction'[1].title>>
                        ELSE <<"Starting prediction for", broadcaster_login[1],
                               broadcaster_user_id[1], app[1].title>>,
                        ok)
                 /\ IF ok
                    THEN Goto(AfterLookup(current_prediction'))
                    ELSE Raise(None, <<"write">>)
    /\ UNCHANGED <<argv, envToken, app, broadcaster_login, broadcaster_user_id,
                   options, items, selection, end_response>>

\* start_prediction(&client, &token, &broadcaster_user_id, &app.title,
\* &app.outcome, app.prediction_window).await?
MainStartPrediction ==
    /\ pc = "start_prediction"
    /\ LET body == start_prediction(broadcaster_user_id[1], app[1].title,
                                    app[1].outcome, app[1].prediction_window) IN
       /\ calls' = Append(calls, [op |-> "create_prediction", body |-> body])
       /\ \E ok \in BOOLEAN :
           IF ok
           THEN /\ prediction' = Some(CreatePredictionResponse(body))
                /\ Goto("select")
           ELSE /\ Raise(Some("create_prediction"), <<"create_prediction">>)
                /\ UNCHANGED prediction
    /\ UNCHANGED <<argv, envToken, app, broadcaster_login, broadcaster_user_id,
                   response, current_prediction, options, items, selection,
                   end_response, term>>

\* options, items and Select::...interact()? : the operator picks one entry
\* of the menu, or the prompt fails.
MainSelect ==
    /\ pc = "select"
    /\ options' = prediction[1].outcomes
    /\ items' = Items(options')
    /\ \E r \in {None} \cup {Some(i) : i \in 0..(Len(items') - 1)} :
        /\ selection' = r
        /\ IF r /= None THEN Goto("end_prediction") ELSE Raise(None, <<"interact">>)
    /\ UNCHANGED <<argv, envToken, app, broadcaster_login, broadcaster_user_id,
                   calls, response, current_prediction, prediction, end_response,
                   term>>

\* `if let Some(selected_outcome) = options.get(selection)`: the status line,
\* then end_prediction(...).await? with Resolved and the outcome's id, or
\* with Canceled and None.
MainEndPrediction ==
    /\ pc = "end_prediction"
    /\ LET selected_outcome == Get(options, selection[1])
           body == IF selected_outcome /= None
                   THEN end_prediction(broadcaster_user_id[1], prediction[1].id,
                                       "Resolved", Some(selected_outcome[1].id))
                   ELSE end_prediction(broadcaster_user_id[1], prediction[1].id,
                                       "Canceled", None)
           line == IF selected_outcome /= None
                   THEN <<"Resolving with this outcome", selected_outcome[1]>>
                   ELSE <<"Cancelling">>
       IN \E ok \in BOOLEAN :
           /\ term' = Writeln(line, ok)
           /\ IF ~ok
              THEN /\ Raise(None, <<"write">>)
                   /\ UNCHANGED <<calls, end_response>>
              ELSE /\ calls' = Append(calls, [op |-> "end_prediction", body |-> body])
                   /\ \E r \in {None} \cup {Some(v) : v \in EndPrediction} :
                       /\ end_response' = r
                       /\ IF r /= None
                          THEN Goto("report")
                          ELSE Raise(Some("end_prediction"), <<"end_prediction">>)
    /\ UNCHANGED <<argv, envToken, app, broadcaster_login, broadcaster_user_id,
                   response, current_prediction, prediction, options, items,
                   selection>>

\* `match response { ... }` and Ok(()).
MainReport ==
    /\ pc = "report"
    /\ LET line == Report(end_response[1]) IN
       IF line = None
       THEN /\ Panic(<<"Unimplemented end_prediction response", end_response[1]>>)
            /\ UNCHANGED term
       ELSE \E ok \in BOOLEAN :
            /\ term' = Writeln(line[1], ok)
            /\ IF ok
               THEN /\ pc' = "done"
                    /\ exit' = "ok"
                    /\ UNCHANGED <<error, failedCall>>
               ELSE Raise(None, <<"write">>)
    /\ UNCHANGED <<argv, envToken, app, broadcaster_login, broadcaster_user_id,
                   calls, response, current_prediction, prediction, options,
                   items, selection, end_response>>

Next ==
    \/ MainParseArgs
    \/ MainEnvVar
    \/ MainFromToken
    \/ MainValidateToken
    \/ MainGetLastPrediction
    \/ MainStartPrediction
    \/ MainSelect
    \/ MainEndPrediction
    \/ MainReport

Spec == Init /\ [][Next]_vars

\* ------------------------------------------------------------ properties
\* The end-prediction calls issued so far.
EndCalls == CallsOf(calls, "end_prediction")
\* The create-prediction calls issued so far.
CreateCalls == CallsOf(calls, "create_prediction")
\* The command line passes clap: --title is given and --prediction-window,
\* when given, is an integer.
SyntacticallyValid ==
    /\ argv.title /= None
    /\ argv.prediction_window = None \/ argv.prediction_window[1] \in {"60", "-1"}
\* The i64 the command line asks for as the prediction window.
RequestedWindow ==
    IF argv.prediction_window = None THEN 30
    ELSE IF argv.prediction_window[1] = "60" THEN 60 ELSE 0 - 1
\* The "Starting prediction for ..." line is on the terminal.
StartingLineWritten ==
    \E k \in 1..Len(term) : term[k][1] = "Starting prediction for"

\* C1: once parse_args has run on a syntactically valid command line, it
\* succeeded exactly when the number n of outcomes satisfies 2 <= n <= 5 (and
\* then returns the title, outcomes and window as given, whatever they are);
\* for n < 2 and for n > 5 main ends with an error whose message names n.
C1_ParseArgsAcceptsTwoToFive ==
    (pc /= "parse_args" /\ SyntacticallyValid) =>
        LET n == Len(argv.outcome) IN
        /\ (app /= None) <=> (2 <= n /\ n <= 5)
        /\ app /= None =>
              app[1] = [title |-> argv.title[1], outcome |-> argv.outcome,
                        prediction_window |-> RequestedWindow]
        /\ n < 2 =>
              /\ exit = "err"
              /\ error = Some(<<"You must provide at least 2 outcomes with --outcome, you provided", n>>)
        /\ n > 5 =>
              /\ exit = "err"
              /\ error = Some(<<"You may provide at most 5 outcomes with --outcome, you provided", n>>)

\* C1's case: five outcomes, an empty title and a negative window are accepted.
C1_Witness ==
    /\ pc = "env_var"
    /\ Len(argv.outcome) = 5
    /\ argv.title = Some("")
    /\ argv.prediction_window = Some("-1")
    /\ app /= None

\* C2: once the list-predictions response has arrived, get_last_prediction
\* returned Some(p) exactly when the response is non-empty and the prediction
\* it yields is Active or Locked, and then p is that prediction, unmodified;
\* otherwise it returned None.
C2_LookupReturnsActiveOrLocked ==
    response /= None =>
        LET data == response[1] IN
        /\ (current_prediction /= None) <=>
              (Len(data) > 0 /\ data[Len(data)].status \in {"Active", "Locked"})
        /\ current_prediction /= None => current_prediction[1] = data[Len(data)]

\* C2's case: a Locked prediction is returned as it came.
C2_Witness ==
    /\ response /= None
    /\ Len(response[1]) = 1
    /\ response[1][1].status = "Locked"
    /\ current_prediction = Some(response[1][1])

\* C3: when the lookup returned a prediction, no create-prediction call is
\* ever issued and the menu is built from that prediction's outcomes: one
\* entry "[k] title" per outcome, in order.
C3_ExistingPredictionIsReused ==
    current_prediction /= None =>
        LET outcomes == current_prediction[1].outcomes IN
        /\ CreateCalls = <<>>
        /\ items /= <<>> =>
              /\ Len(items) = Len(outcomes) + 1
              /\ \A k \in 1..Len(outcomes) :
                    items[k] = <<"[", k, "] ", outcomes[k].title>>

\* C3's case: a Locked prediction with three outcomes is found while two
\* --outcome arguments were given, and the operator has chosen from its menu.
C3_Witness ==
    /\ current_prediction /= None
    /\ current_prediction[1].status = "Locked"
    /\ Len(current_prediction[1].outcomes) = 3
    /\ Len(app[1].outcome) = 2
    /\ selection /= None
    /\ exit = "ok"

\* The body C4 expects of the create-prediction call.
ExpectedCreateBody ==
    [broadcaster_id |-> "u-1",
     title |-> argv.title[1],
     outcomes |-> [i \in 1..Len(argv.outcome) |-> [title |-> argv.outcome[i]]],
     prediction_window |-> RequestedWindow]

\* C4 as stated: every run in which the lookup succeeded and returned none
\* has, when it ends, issued exactly one create-prediction call, with the
\* broadcaster id, title, outcomes and window of the command line.
C4_AsStated ==
    (pc = "done" /\ response /= None /\ current_prediction = None) =>
        /\ Len(CreateCalls) = 1
        /\ CreateCalls[1].body = ExpectedCreateBody

\* C4 as amended: when the lookup succeeded and returned none, at most one
\* create-prediction call is issued: exactly one once the "Starting
\* prediction" line is written and control has left the create step, none
\* when that write failed; the call's body carries the broadcaster id of the
\* token validation, the --title value, one outcome per --outcome argument in
\* order, and the --prediction-window value (30 when absent).
C4_CreateCallCarriesArguments ==
    (response /= None /\ current_prediction = None) =>
        /\ Len(CreateCalls) <= 1
        /\ (Len(CreateCalls) = 1) <=> (StartingLineWritten /\ pc /= "start_prediction")
        /\ ~StartingLineWritten => (pc = "done" /\ exit = "err" /\ error = Some(<<"write">>))
        /\ Len(CreateCalls) = 1 => CreateCalls[1].body = ExpectedCreateBody

\* C4's case: outcomes Win, Lose and no window flag: the create call is
\* issued with those two titles and a window of 30.
C4_Witness ==
    /\ response /= None
    /\ current_prediction = None
    /\ Len(CreateCalls) = 1
    /\ argv.outcome = <<"Win", "Lose">>
    /\ argv.prediction_window = None
    /\ CreateCalls[1].body.prediction_window = 30
    /\ CreateCalls[1].body.outcomes = <<[title |-> "Win"], [title |-> "Lose"]>>

Handled == {"Success", "MissingQuery", "AuthFailed"}

\* C7 as stated: a run in which the end-prediction call returned a response
\* ends with Ok when the variant is Success, MissingQuery or AuthFailed, and
\* with a panic for every other variant.
C7_AsStated ==
    (pc = "done" /\ end_response /= None) =>
        /\ end_response[1] \in Handled => exit = "ok"
        /\ end_response[1] \notin Handled => exit = "panic"

\* C7 as amended: a run in which the end-prediction call returned Success,
\* MissingQuery or AuthFailed writes the confirmation (Success) or the error
\* diagnostic (the other two) and ends with Ok when that write succeeds, and
\* with the write's error, a handled error, when it fails; for every other
\* variant the run ends with a panic.
C7_ReportOutcome ==
    (pc = "done" /\ end_response /= None) =>
        LET v == end_response[1]
            last == term[Len(term)]
        IN /\ v = "Success" =>
                \/ exit = "ok" /\ last = <<"Successfully ended prediction">>
                \/ exit = "err" /\ error = Some(<<"write">>) /\ failedCall = None
           /\ v = "MissingQuery" =>
                \/ exit = "ok" /\ last = <<"ERROR: Bad prediction body:", v>>
                \/ exit = "err" /\ error = Some(<<"write">>) /\ failedCall = None
           /\ v = "AuthFailed" =>
                \/ exit = "ok" /\ last = <<"ERROR: Auth failed:", v>>
                \/ exit = "err" /\ error = Some(<<"write">>) /\ failedCall = None
           /\ v \notin Handled => exit = "panic"
           /\ exit = "err" => last[1] \in {"Resolving with this outcome", "Cancelling"}

\* C7's case: AuthFailed is reported and the run still ends with Ok.
C7_Witness ==
    /\ pc = "done"
    /\ end_response = Some("AuthFailed")
    /\ exit = "ok"

\* C8: no remote call is issued twice; once a remote call has failed, main
\* has returned the error and that call is the last one issued: a failed
\* lookup is followed by no create call, a failed create by no prompt and no
\* end call.
C8_FailedCallEndsTheRun ==
    /\ \A op \in {"validate_token", "get_predictions", "create_prediction", "end_prediction"} :
          Len(CallsOf(calls, op)) <= 1
    /\ failedCall /= None =>
          /\ pc = "done"
          /\ exit = "err"
          /\ calls[Len(calls)].op = failedCall[1]
          /\ failedCall[1] = "get_predictions" => CreateCalls = <<>>
          /\ failedCall[1] = "create_prediction" =>
                (selection = None /\ items = <<>> /\ EndCalls = <<>>)

\* C8's case: the create call failed.
C8_Witness ==
    /\ failedCall = Some("create_prediction")
    /\ exit = "err"

\* C9: the calls issued are a prefix of validate, list, [create], end; an
\* end call is issued only after the lookup completed and a prediction and a
\* selection were obtained; a run that ends with Ok issued exactly one end
\* call.
C9_CallOrder ==
    LET ops == Ops(calls)
        withCreate == <<"validate_token", "get_predictions", "create_prediction", "end_prediction">>
        withoutCreate == <<"validate_token", "get_predictions", "end_prediction">>
    IN /\ \/ Len(ops) <= 4 /\ ops = SubSeq(withCreate, 1, Len(ops))
          \/ Len(ops) <= 3 /\ ops = SubSeq(withoutCreate, 1, Len(ops))
       /\ EndCalls /= <<>> =>
             (response /= None /\ prediction /= None /\ selection /= None)
       /\ exit = "ok" => Len(EndCalls) = 1

\* C9's case: a run with all four calls ends with Ok.
C9_Witness ==
    /\ exit = "ok"
    /\ Ops(calls) = <<"validate_token", "get_predictions", "create_prediction", "end_prediction">>

\* C10: an end-prediction call carries the id of the prediction whose
\* outcomes were shown in the menu (the one the lookup returned, else the one
\* the create call returned), the broadcaster id of the token validation, and
\* a winning outcome id, if any, that is the id of one of that prediction's
\* outcomes.
C10_EndCallTargetsThePredictionInUse ==
    EndCalls /= <<>> =>
        LET body == EndCalls[1].body
            used == IF current_prediction /= None
                    THEN current_prediction[1]
                    ELSE CreatePredictionResponse(CreateCalls[1].body)
        IN /\ prediction = Some(used)
           /\ options = used.outcomes
           /\ body.id = used.id
           /\ body.broadcaster_id = "u-1"
           /\ body.broadcaster_id = calls[2].body.broadcaster_id
           /\ body.winning_outcome_id /= None =>
                 \E k \in 1..Len(used.outcomes) :
                     used.outcomes[k].id = body.winning_outcome_id[1]

\* C10's case: a created prediction is resolved with its second outcome.
C10_Witness ==
    /\ EndCalls /= <<>>
    /\ current_prediction = None
    /\ EndCalls[1].body.id = "p-new"
    /\ EndCalls[1].body.winning_outcome_id = Some(<<"new", 2>>)

====
